---- MODULE Spec2Model ----
(***************************************************************************)
(* Guild Event Tracker (GuildEventTrackerExtension): the event lifecycle,  *)
(* the poll cycle over the roster, the day-indexed snapshot files, the     *)
(* compile-and-report pass with its daily and weekly draws, the timers and *)
(* the shutdown hook, as one state machine.  Every asynchronous handler is *)
(* a process whose pc is the await it is suspended at.                     *)
(***************************************************************************)
EXTENDS Integers, Sequences, FiniteSets, TLC

\* ---------------------------------------------------------------- bounds
\* roster size (guild.members)
NumMembers == 2
\* handlers that may be suspended at the same time
MaxProcs == 2
\* commands, timer callbacks, signals and restarts in one behaviour
MaxOps == 3
\* ticks the wall clock advances in one behaviour
MaxTicks == 1
\* calls to the external services that fail in one behaviour
MaxFaults == 1
\* clock ticks in 24 hours
TicksPerDay == 2
\* requests followed when the credential rotator is run on its own
MaxCalls == 135

VARIABLES
    now,              \* wall clock (Date.now()), in ticks
    eventConfig,      \* this.eventConfig
    diskConfig,       \* data/event/event-config.json
    giveawayData,     \* this.giveawayData
    diskGiveaway,     \* data/event/giveaway-data.json
    files,            \* data/event/<uuid>/day<n>.json, keyed <<uuid, n>>
    overall,          \* data/event/overall.json
    updateTimer,      \* this.updateTimer: "null", "live" or "stale" (cleared handle)
    dailyReportTimer, \* this.dailyReportTimer, likewise
    pendingTimeouts,  \* first-midnight setTimeout calls not yet due
    dueTimeouts,      \* first-midnight timeouts whose midnight has passed
    liveDaily,        \* live 24-hour intervals (the handle's and lost ones)
    dueDaily,         \* 24-hour interval callbacks due and not yet run
    procs,            \* the suspended handlers
    reply,            \* the message the last step sent to the requester, "none" if none
    ops,              \* commands, timer callbacks, signals and restarts so far
    faults,           \* failed calls to the external services so far
    hypixelApiKeys,   \* this.hypixelApiKeys
    currentKeyIndex,  \* this.currentKeyIndex
    requestCount,     \* this.requestCount
    botUuidCache,     \* whether this.botUuidCache holds the bot's UUID
    hist              \* history: what the handlers did (read by the properties only)

vars == <<now, eventConfig, diskConfig, giveawayData, diskGiveaway, files, overall,
          updateTimer, dailyReportTimer, pendingTimeouts, dueTimeouts, liveDaily,
          dueDaily, procs, reply, ops, faults, hypixelApiKeys, currentKeyIndex,
          requestCount, botUuidCache, hist>>

\* ------------------------------------------------------ credential rotator
\* requests served by one key before the rotator moves on
RotateEvery == 65

\* the key lists init() can load: FALLBACK_HYPIXEL_API_KEY and
\* 2ND_FALLBACK_HYPIXEL_API_KEY, each taken when it is set
KeyLists == {<<>>, <<"key1">>, <<"key2">>, <<"key1", "key2">>}

\* a rotator that moves on at every multiple of RotateEvery, the first call included
getNextApiKey_NoGuard(keys, index, count) ==
    IF Len(keys) = 0 THEN [key |-> "", index |-> index, count |-> count]
    ELSE LET rotated == IF count % RotateEvery = 0 THEN (index + 1) % Len(keys) ELSE index
         IN  [key |-> keys[rotated + 1], index |-> rotated, count |-> count + 1]

\* getNextApiKey: the key returned, and currentKeyIndex and requestCount after it
getNextApiKey(keys, index, count) ==
    IF Len(keys) = 0 THEN [key |-> "", index |-> index, count |-> count]
    ELSE LET rotated == IF count > 0 /\ count % RotateEvery = 0
                        THEN (index + 1) % Len(keys) ELSE index
         IN  [key |-> keys[rotated + 1], index |-> rotated, count |-> count + 1]

RECURSIVE KeyCalls(_, _, _)
\* n calls of getNextApiKey one after another, from rotator state r = [key, index,
\* count, calls]; calls counts them
KeyCalls(keys, r, n) ==
    IF n = 0 THEN r
    ELSE LET g == getNextApiKey(keys, r.index, r.count)
         IN  KeyCalls(keys, [key |-> g.key, index |-> g.index, count |-> g.count,
                             calls |-> r.calls + 1], n - 1)

\* ------------------------------------------------------------ data model
Members == 1..NumMembers

\* guild.members, in the order the API lists them
Roster == [i \in 1..NumMembers |-> i]

\* eventConfig === null
NoConfig == [set |-> FALSE, name |-> "", startDate |-> 0, endDate |-> 0,
             updateInterval |-> 0, active |-> FALSE]

\* { dailyWinners: [], weeklyWinners: [], dailyPools: [] }
EmptyGiveaway == [dailyWinners |-> <<>>, weeklyWinners |-> <<>>, dailyPools |-> <<>>]

\* no file
NoFile == [exists |-> FALSE]

\* this.eventConfig && this.eventConfig.active
EventActive(cfg) == cfg.set /\ cfg.active

\* the clock at Init: the last tick of day 1
InitNow == 2 * TicksPerDay - 1

\* new Date(dateString).getTime(): a date-only string is midnight of that day
DateTime(day) == day * TicksPerDay

\* a date string a requester typed: a calendar day, or text that is no date
Date(day) == [ok |-> TRUE, day |-> day]

NotADate == [ok |-> FALSE, day |-> 0]

\* an interval string a requester typed: digits and a unit letter
Interval(num, unit) == [num |-> num, unit |-> unit]

\* the !startevent messages a requester sends: today's date is day 1 at Init
StartInputs ==
    {[rank |-> "Leader", name |-> "A", startDate |-> Date(1), endDate |-> Date(3),
      intervalStr |-> Interval(2, "h")],
     [rank |-> "Leader", name |-> "B", startDate |-> Date(2), endDate |-> Date(3),
      intervalStr |-> Interval(30, "m")],
     [rank |-> "Leader", name |-> "B", startDate |-> Date(2), endDate |-> Date(2),
      intervalStr |-> Interval(2, "h")],
     [rank |-> "Leader", name |-> "B", startDate |-> NotADate, endDate |-> Date(3),
      intervalStr |-> Interval(2, "h")],
     [rank |-> "Leader", name |-> "B", startDate |-> Date(2), endDate |-> Date(3),
      intervalStr |-> Interval(2, "w")],
     [rank |-> "Member", name |-> "B", startDate |-> Date(2), endDate |-> Date(3),
      intervalStr |-> Interval(2, "h")]}

\* /^(\d+)(m|h|d)$/i
IntervalMatches(s) == s.num >= 0 /\ s.unit \in {"m", "h", "d"}

\* parseInterval: milliseconds of a matching string
parseInterval(s) ==
    CASE s.unit = "m" -> s.num * 60 * 1000
      [] s.unit = "h" -> s.num * 60 * 60 * 1000
      [] s.unit = "d" -> s.num * 24 * 60 * 60 * 1000

\* a day index kept as a counter of the reports made so far
getCurrentDay_Counter(cfg, t) == Len(overall) + 1

\* Math.floor((today - eventStart) / (24h)) + 1
getCurrentDay(cfg, t) == ((t - DateTime(cfg.startDate)) \div TicksPerDay) + 1

\* new Date().toISOString().split('T')[0]: the calendar day of the clock
Today(t) == t \div TicksPerDay

\* a game's block of statistics in a player record: present with its wins, or absent
Family(wins) == [has |-> TRUE, wins |-> wins]

NoFamily == [has |-> FALSE, wins |-> 0]

\* statistics the services may return for a member; the network level is
\* counted in thousandths of a level
PlayerSamples ==
    {[weekly |-> 5, daily |-> 2, bedwars |-> Family(1), skywars |-> NoFamily,
      networkLevel |-> 1004]}

\* the two fetchGuildData calls made while one member's record is built: the
\* guild service answers both or neither
GuildOutcomes == {<<TRUE, TRUE>>, <<FALSE, FALSE>>}

\* the PlayerStats record built by updateMemberStats / captureBaselineForMember;
\* g1, g2: whether the two fetchGuildData calls inside it returned a guild
BuildStats(uuid, sample, g1, g2) ==
    [exists |-> TRUE, username |-> uuid,
     weekly |-> IF g1 THEN sample.weekly ELSE 0,
     daily |-> IF g2 THEN sample.daily ELSE 0,
     bedwars |-> sample.bedwars, skywars |-> sample.skywars,
     networkLevel |-> sample.networkLevel]

\* a write that leaves a file alone that is already there
WriteFile_KeepFirst(fs, key, val) ==
    [k \in (DOMAIN fs) \cup {key} |-> IF k \in DOMAIN fs THEN fs[k] ELSE val]

\* fs.writeFile(path, ...): creates or replaces the file of one key
WriteFile(fs, key, val) ==
    [k \in (DOMAIN fs) \cup {key} |-> IF k = key THEN val ELSE fs[k]]

\* the file of a key, or NoFile
ReadFile(fs, key) == IF key \in DOMAIN fs THEN fs[key] ELSE NoFile

\* ------------------------------------------------- leaderboard compilation
\* entries kept of each leaderboard: .slice(0, 10)
TopN == 10

\* the smaller of two numbers
Min2(a, b) == IF a <= b THEN a ELSE b

\* Array.prototype.sort with (a, b) => b[f] - a[f] is stable: an element goes
\* after every element whose key is not smaller
InsertDesc(s, x, f) ==
    LET pos == Cardinality({i \in 1..Len(s) : s[i][f] >= x[f]})
    IN  SubSeq(s, 1, pos) \o <<x>> \o SubSeq(s, pos + 1, Len(s))

RECURSIVE SortDesc(_, _)
\* playerGains.sort((a, b) => b[f] - a[f]), in place
SortDesc(s, f) ==
    IF s = <<>> THEN <<>>
    ELSE InsertDesc(SortDesc(SubSeq(s, 1, Len(s) - 1), f), s[Len(s)], f)

\* .slice(0, 10)
Slice10(s) == SubSeq(s, 1, Min2(TopN, Len(s)))

\* data.bedwars?.wins || 0
WinsOf(family) == IF family.has THEN family.wins ELSE 0

\* Math.round(x * 100) / 100 on thousandths: to the nearest hundredth, halves upward
Round2(x) == ((x + 5) \div 10) * 10

\* gains that take the day's own counter for the primary metric, baseline or not
calculatePlayerDailyGains_Daily(fs, uuid, currentDay) ==
    LET todayData == ReadFile(fs, <<uuid, currentDay>>)
        baselineData == ReadFile(fs, <<uuid, 0>>)
    IN  IF ~todayData.exists THEN [has |-> FALSE]
        ELSE [has |-> TRUE, username |-> todayData.username, gexp |-> todayData.daily,
              bwWins |-> IF baselineData.exists
                         THEN WinsOf(todayData.bedwars) - WinsOf(baselineData.bedwars) ELSE 0,
              swWins |-> IF baselineData.exists
                         THEN WinsOf(todayData.skywars) - WinsOf(baselineData.skywars) ELSE 0,
              nwLevel |-> IF baselineData.exists
                          THEN todayData.networkLevel - baselineData.networkLevel ELSE 0]

\* gains that give up (null) when the baseline cannot be read
calculatePlayerDailyGains_NeedsBaseline(fs, uuid, currentDay) ==
    LET todayData == ReadFile(fs, <<uuid, currentDay>>)
        baselineData == ReadFile(fs, <<uuid, 0>>)
    IN  IF ~todayData.exists \/ ~baselineData.exists THEN [has |-> FALSE]
        ELSE [has |-> TRUE, username |-> todayData.username,
              gexp |-> todayData.weekly - baselineData.weekly,
              bwWins |-> WinsOf(todayData.bedwars) - WinsOf(baselineData.bedwars),
              swWins |-> WinsOf(todayData.skywars) - WinsOf(baselineData.skywars),
              nwLevel |-> todayData.networkLevel - baselineData.networkLevel]

\* calculatePlayerDailyGains: null without a file for currentDay; the member's own
\* daily counter without a baseline; otherwise today minus baseline
calculatePlayerDailyGains(fs, uuid, currentDay) ==
    LET todayData == ReadFile(fs, <<uuid, currentDay>>)
        baselineData == ReadFile(fs, <<uuid, 0>>)
    IN  IF ~todayData.exists THEN [has |-> FALSE]
        ELSE IF ~baselineData.exists
             THEN [has |-> TRUE, username |-> todayData.username, gexp |-> todayData.daily,
                   bwWins |-> 0, swWins |-> 0, nwLevel |-> 0]
             ELSE [has |-> TRUE, username |-> todayData.username,
                   gexp |-> todayData.weekly - baselineData.weekly,
                   bwWins |-> WinsOf(todayData.bedwars) - WinsOf(baselineData.bedwars),
                   swWins |-> WinsOf(todayData.skywars) - WinsOf(baselineData.skywars),
                   nwLevel |-> todayData.networkLevel - baselineData.networkLevel]

\* the player directories readdir lists, in directory order
PlayerDirs(fs) == {u \in Members : \E k \in DOMAIN fs : k[1] = u}

RECURSIVE PlayerGains(_, _, _)
\* the loop over playerDirs: the gains of the members from u upward that have any
PlayerGains(fs, u, currentDay) ==
    IF u > NumMembers THEN <<>>
    ELSE LET g == calculatePlayerDailyGains(fs, u, currentDay)
         IN  (IF u \in PlayerDirs(fs) /\ g.has THEN <<g>> ELSE <<>>)
             \o PlayerGains(fs, u + 1, currentDay)

RECURSIVE SumField(_, _)
\* the sum of one field over a sequence of records
SumField(s, f) == IF s = <<>> THEN 0 ELSE s[1][f] + SumField(Tail(s), f)

\* .map(p => ({ username: p.username, gained: p[f] }))
MapGained(s, f) == [i \in 1..Len(s) |-> [username |-> s[i].username, gained |-> s[i][f]]]

\* .map(p => ({ username: p.username, gained: Math.round(p.nwLevel * 100) / 100 }))
MapRounded(s, f) ==
    [i \in 1..Len(s) |-> [username |-> s[i].username, gained |-> Round2(s[i][f])]]

\* .map(p => ({ username: p.username, wins: p[f] }))
MapWins(s, f) == [i \in 1..Len(s) |-> [username |-> s[i].username, wins |-> s[i][f]]]

\* a compileDailySummary that counts every player directory
compileDailySummary_CountsDirs(fs, currentDay, date) ==
    LET playerGains == PlayerGains(fs, 1, currentDay)
        byGexp == SortDesc(playerGains, "gexp")
        byBw == SortDesc(byGexp, "bwWins")
        bySw == SortDesc(byBw, "swWins")
        byNw == SortDesc(bySw, "nwLevel")
    IN  [date |-> date,
         totalPlayers |-> Cardinality(PlayerDirs(fs)),
         totalGexpGained |-> SumField(playerGains, "gexp"),
         topGexpGainers |-> MapGained(Slice10(byGexp), "gexp"),
         topBedwarsWins |-> MapWins(Slice10(byBw), "bwWins"),
         topSkywarsWins |-> MapWins(Slice10(bySw), "swWins"),
         topNetworkLevelGain |-> MapRounded(Slice10(byNw), "nwLevel"),
         dailyWinner |-> 0, weeklyWinner |-> 0,
         dayNumber |-> currentDay,
         compiledDay |-> currentDay]

\* compileDailySummary: the four sorts run one after another on the same array
compileDailySummary(fs, currentDay, date) ==
    LET playerGains == PlayerGains(fs, 1, currentDay)
        byGexp == SortDesc(playerGains, "gexp")
        byBw == SortDesc(byGexp, "bwWins")
        bySw == SortDesc(byBw, "swWins")
        byNw == SortDesc(bySw, "nwLevel")
    IN  [date |-> date,
         totalPlayers |-> Len(playerGains),
         totalGexpGained |-> SumField(playerGains, "gexp"),
         topGexpGainers |-> MapGained(Slice10(byGexp), "gexp"),
         topBedwarsWins |-> MapWins(Slice10(byBw), "bwWins"),
         topSkywarsWins |-> MapWins(Slice10(bySw), "swWins"),
         topNetworkLevelGain |-> MapRounded(Slice10(byNw), "nwLevel"),
         dailyWinner |-> 0, weeklyWinner |-> 0,
         dayNumber |-> currentDay,
         compiledDay |-> currentDay]

\* no summary in hand
NoSummary == [date |-> 0]

\* ------------------------------------------------------------- the draws
\* whether a name is in a sequence of names
InSeq(s, x) == \E i \in 1..Len(s) : s[i] = x

RECURSIVE AddNames(_, _)
\* eligiblePlayers.add(p.username) for each entry, a Set keeping insertion order
AddNames(pool, entries) ==
    IF entries = <<>> THEN pool
    ELSE AddNames(IF InSeq(pool, entries[1].username) THEN pool
                  ELSE Append(pool, entries[1].username), Tail(entries))

\* anyone in the top 10 of any category
EligiblePool(summary) ==
    AddNames(AddNames(AddNames(AddNames(<<>>, Slice10(summary.topGexpGainers)),
                               Slice10(summary.topBedwarsWins)),
                      Slice10(summary.topSkywarsWins)),
             Slice10(summary.topNetworkLevelGain))

\* summary.topGexpGainers.find(p => p.username === username)?.gained || 0
GexpOf(summary, username) ==
    LET hit == {i \in 1..Len(summary.topGexpGainers) :
                   summary.topGexpGainers[i].username = username}
    IN  IF hit = {} THEN 0
        ELSE summary.topGexpGainers[CHOOSE i \in hit : \A j \in hit : i <= j].gained

\* the order of the quotients gexp / average for one average: the order of gexp
\* when the average is positive, the reverse order when it is negative
ScoreKey(gexp, averageSign) == IF averageSign >= 0 THEN gexp ELSE 0 - gexp

\* the sign of a number
Sign(x) == IF x > 0 THEN 1 ELSE IF x < 0 THEN 0 - 1 ELSE 0

RECURSIVE PlayerScores(_, _, _)
\* the scored entries of a list of [username, gexp]: members without gain are skipped
PlayerScores(entries, averageSign, i) ==
    IF i > Len(entries) THEN <<>>
    ELSE (IF entries[i].gexp = 0 THEN <<>>
          ELSE <<[username |-> entries[i].username, gexp |-> entries[i].gexp,
                  score |-> ScoreKey(entries[i].gexp, averageSign)]>>)
         \o PlayerScores(entries, averageSign, i + 1)

\* playerScores.sort((a, b) => b.score - a.score)[0]?.username, 0 when there is none
TopScorer(scores) ==
    LET sorted == SortDesc(scores, "score")
    IN  IF sorted = <<>> THEN 0 ELSE sorted[1].username

\* a daily draw without the check for an average of zero
selectDailyWinner_NoZeroCheck(summary) ==
    LET pool == EligiblePool(summary)
        entries == [i \in 1..Len(pool) |->
                       [username |-> pool[i], gexp |-> GexpOf(summary, pool[i])]]
    IN  [winner |-> TopScorer(PlayerScores(entries, 1, 1)),
         pushed |-> summary.dayNumber # 0,
         pool |-> pool]

\* selectDailyWinner: [winner, pushed, pool]; pushed tells whether the pool was
\* appended to giveawayData.dailyPools
selectDailyWinner(summary) ==
    LET averageSign == IF summary.totalPlayers > 0 THEN Sign(summary.totalGexpGained) ELSE 1
        pool == EligiblePool(summary)
        entries == [i \in 1..Len(pool) |->
                       [username |-> pool[i], gexp |-> GexpOf(summary, pool[i])]]
    IN  IF averageSign = 0 THEN [winner |-> 0, pushed |-> FALSE, pool |-> <<>>]
        ELSE [winner |-> TopScorer(PlayerScores(entries, averageSign, 1)),
              pushed |-> summary.dayNumber # 0,
              pool |-> pool]

RECURSIVE WeekAddPool(_, _, _)
\* one day of the week: every pool member's gexp of that day is added to its total
WeekAddPool(stats, summary, pool) ==
    IF pool = <<>> THEN stats
    ELSE LET u == pool[1]
             g == GexpOf(summary, u)
             hit == {i \in 1..Len(stats) : stats[i].username = u}
             next == IF hit = {} THEN Append(stats, [username |-> u, gexp |-> g])
                     ELSE [i \in 1..Len(stats) |->
                              IF i \in hit THEN [stats[i] EXCEPT !.gexp = @ + g]
                              ELSE stats[i]]
         IN  WeekAddPool(next, summary, Tail(pool))

RECURSIVE WeekStats(_, _)
\* playerWeekStats over the week's summaries, in insertion order
WeekStats(stats, sums) ==
    IF sums = <<>> THEN stats
    ELSE WeekStats(WeekAddPool(stats, sums[1], EligiblePool(sums[1])), Tail(sums))

\* a weekly draw over every summary of the history
WeekSummaries_All(allSummaries, weekNumber) == allSummaries

\* allSummaries.filter(s => s.dayNumber && s.dayNumber >= startDay && s.dayNumber <= endDay)
WeekSummaries(allSummaries, weekNumber) ==
    SelectSeq(allSummaries,
              LAMBDA s : s.dayNumber # 0 /\ s.dayNumber >= (weekNumber - 1) * 7 + 1
                         /\ s.dayNumber <= weekNumber * 7)

\* weekAverageGexp as the fraction num / den with den > 0:
\* weekTotalGexp / (weekTotalPlayers / weekSummaries.length), or 1
WeekAverageGexp(weekSummaries) ==
    LET weekTotalGexp == SumField(weekSummaries, "totalGexpGained")
        weekTotalPlayers == SumField(weekSummaries, "totalPlayers")
    IN  IF weekTotalPlayers > 0
        THEN [num |-> weekTotalGexp * Len(weekSummaries), den |-> weekTotalPlayers]
        ELSE [num |-> 1, den |-> 1]

\* selectWeeklyWinner: read from overall.json as it is on disk; 0 when there is none
selectWeeklyWinner(allSummaries, weekNumber) ==
    LET weekSummaries == WeekSummaries(allSummaries, weekNumber)
        averageSign == Sign(WeekAverageGexp(weekSummaries).num)
        stats == WeekStats(<<>>, weekSummaries)
    IN  IF weekSummaries = <<>> \/ averageSign = 0 \/ stats = <<>> THEN 0
        ELSE TopScorer(PlayerScores(stats, averageSign, 1))

\* dayNumber % 7 === 0
IsWeeklyDay(dayNumber) == dayNumber % 7 = 0

\* Math.floor(dayNumber / 7)
WeekNumber(dayNumber) == dayNumber \div 7

\* ------------------------------------------------------------- processes
\* no weekly draw made
NoWeek == [drawn |-> FALSE, weekNumber |-> 0, used |-> <<>>]

\* no handler in the slot
Idle == [kind |-> "idle", pc |-> "idle", idx |-> 0, n |-> 0, errs |-> 0, rosterOk |-> FALSE,
         curDay |-> 0, curDate |-> 0, sum |-> NoSummary, gains |-> <<>>, week |-> NoWeek,
         act |-> FALSE,
         saved |-> FALSE]

\* a handler of one kind suspended at one await
Proc(kind, pc) == [Idle EXCEPT !.kind = kind, !.pc = pc]

\* the free slots
Free == {i \in 1..MaxProcs : procs[i].kind = "idle"}

\* the slot a new handler takes
Slot == CHOOSE i \in Free : \A j \in Free : i <= j

\* the history before anything happened
NoWrite == [wrote |-> FALSE, day |-> 0, fits |-> TRUE, inc |-> 0]

NoFlush == [ran |-> FALSE, rosterOk |-> FALSE, n |-> 0, savedCfg |-> FALSE,
            savedGiveaway |-> FALSE]

NoStop == [ran |-> FALSE, saved |-> FALSE, passes |-> 0, final |-> FALSE]

InitHist == [activeEvents |-> 0, restarts |-> 0, flushes |-> 0,
             lastWrite |-> NoWrite, flushDone |-> NoFlush, stopDone |-> NoStop,
             keyCalls |-> 0, lastKey |-> "", resolvedAt |-> 0]

\* the state after construction and init() on an empty data directory, with the
\* keys the environment holds
Boot(keys) ==
    /\ now = InitNow
    /\ eventConfig = NoConfig
    /\ diskConfig = NoConfig
    /\ giveawayData = EmptyGiveaway
    /\ diskGiveaway = EmptyGiveaway
    /\ files = <<>>
    /\ overall = <<>>
    /\ updateTimer = "null"
    /\ dailyReportTimer = "null"
    /\ pendingTimeouts = 0
    /\ dueTimeouts = 0
    /\ liveDaily = 0
    /\ dueDaily = 0
    /\ procs = [i \in 1..MaxProcs |-> Idle]
    /\ reply = "none"
    /\ ops = 0
    /\ faults = 0
    /\ hypixelApiKeys = keys
    /\ currentKeyIndex = 0
    /\ requestCount = 0
    /\ botUuidCache = FALSE
    /\ hist = InitHist

\* both fallback keys are set
Init == Boot(<<"key1", "key2">>)

\* ---------------------------------------------------------------- timers
\* clearInterval(handle) on the 24-hour handle: the live intervals left
ClearedDaily(handle, live) == IF handle = "live" THEN live - 1 ELSE live

\* startDailyReportTimer: clears the interval handle it holds, without resetting
\* it, and schedules the first report with a setTimeout whose handle is dropped
startDailyReportTimer ==
    /\ dailyReportTimer' = IF dailyReportTimer = "null" THEN "null" ELSE "stale"
    /\ liveDaily' = ClearedDaily(dailyReportTimer, liveDaily)
    /\ dueDaily' = Min2(dueDaily, ClearedDaily(dailyReportTimer, liveDaily))
    /\ pendingTimeouts' = pendingTimeouts + 1
    /\ UNCHANGED dueTimeouts

\* startUpdateTimer: clears the handle it holds and arms a new interval
startUpdateTimer == updateTimer' = IF eventConfig.set THEN "live" ELSE updateTimer

\* handleStopEvent, "Stop timers": both handles are cleared and reset
StopTimers ==
    /\ updateTimer' = "null"
    /\ dailyReportTimer' = "null"
    /\ liveDaily' = ClearedDaily(dailyReportTimer, liveDaily)
    /\ dueDaily' = Min2(dueDaily, ClearedDaily(dailyReportTimer, liveDaily))
    /\ UNCHANGED <<pendingTimeouts, dueTimeouts>>

\* the end of the first-midnight timeout's callback: the 24-hour interval is
\* armed and its handle stored over whatever handle was there
ArmDailyInterval ==
    /\ dailyReportTimer' = "live"
    /\ liveDaily' = liveDaily + 1

timerVars == <<updateTimer, dailyReportTimer, pendingTimeouts, dueTimeouts, liveDaily, dueDaily>>

diskVars == <<diskConfig, diskGiveaway, files, overall>>

keyVars == <<hypixelApiKeys, currentKeyIndex, requestCount, botUuidCache>>

\* the rotator after n requests to the Hypixel API, each with the key
\* getNextApiKey hands out
KeysAfter(h, n) ==
    KeyCalls(hypixelApiKeys,
             [key |-> h.lastKey, index |-> currentKeyIndex, count |-> requestCount,
              calls |-> h.keyCalls], n)

\* the history after those requests: how many keys were handed out, and the last one
HistAfter(h, r) == [h EXCEPT !.keyCalls = r.calls, !.lastKey = r.key]

\* ------------------------------------------------------------ persistence
\* saveEventConfig that writes the configuration as a stopped one
saveEventConfig_Inactive(cfg, disk) == IF cfg.set THEN [cfg EXCEPT !.active = FALSE] ELSE disk

\* saveEventConfig that writes nothing
saveEventConfig_Skip(cfg, disk) == disk

\* saveEventConfig: what event-config.json holds after it (nothing is written
\* without a config)
saveEventConfig(cfg, disk) == IF cfg.set THEN cfg ELSE disk

\* saveGiveawayData that writes nothing
saveGiveawayData_Skip(data) == diskGiveaway

\* saveGiveawayData: what giveaway-data.json holds after it
saveGiveawayData(data) == data

\* -------------------------------------------------------- command handlers
\* ['Leader', 'GM', 'Guild Master'].includes(context.guildRank || '')
HasPermission(rank) == rank \in {"Leader", "GM", "Guild Master"}

\* the ranks of the requesters
Ranks == {"Leader", "Member"}

\* a command that answers and does nothing else
Answer(text) ==
    /\ reply' = text
    /\ ops' = ops + 1
    /\ UNCHANGED <<keyVars, faults, now, eventConfig, diskConfig, giveawayData, diskGiveaway, files, overall,
                   timerVars, procs, hist>>

\* checks that let an end date pass that is not after the start date
StartValidation_NoOrderCheck(startDate, endDate, intervalStr) ==
    IF ~startDate.ok \/ ~endDate.ok THEN "Invalid date format"
    ELSE IF ~IntervalMatches(intervalStr) THEN "Invalid interval format"
    ELSE "ok"

\* the checks of handleStartEvent on its parsed parameters, in the code's order:
\* "ok", or the reason the try block throws
StartValidation(startDate, endDate, intervalStr) ==
    IF ~startDate.ok \/ ~endDate.ok THEN "Invalid date format"
    ELSE IF DateTime(endDate.day) <= DateTime(startDate.day) THEN "End date must be after start date"
    ELSE IF ~IntervalMatches(intervalStr) THEN "Invalid interval format"
    ELSE "ok"

\* handleStartEvent without its check for an active event
StartConflicts_Never(cfg) == FALSE

\* "Check if event already active" of handleStartEvent
StartConflicts(cfg) == EventActive(cfg)

\* handleStartEvent up to its first await (the write of saveEventConfig is issued)
handleStartEvent(m) ==
    /\ ops < MaxOps
    /\ IF ~HasPermission(m.rank) THEN Answer("start: no permission")
       ELSE IF StartConflicts(eventConfig) THEN Answer("start: already active")
       ELSE IF StartValidation(m.startDate, m.endDate, m.intervalStr) # "ok"
       THEN Answer("start: error")
       ELSE /\ Free # {}
            /\ eventConfig' = [set |-> TRUE, name |-> m.name, startDate |-> m.startDate.day,
                               endDate |-> m.endDate.day,
                               updateInterval |-> parseInterval(m.intervalStr),
                               active |-> TRUE]
            /\ diskConfig' = saveEventConfig(eventConfig', diskConfig)
            /\ procs' = [procs EXCEPT ![Slot] = Proc("start", "clear")]
            /\ hist' = [hist EXCEPT !.activeEvents = @ + 1]
            /\ ops' = ops + 1
            /\ reply' = "none"
            /\ UNCHANGED <<keyVars, faults, now, giveawayData, diskGiveaway, files, overall, timerVars>>

\* a clearEventData that leaves overall.json where it is
StartClear_KeepsOverall(i) ==
    /\ procs[i].kind = "start" /\ procs[i].pc = "clear"
    /\ files' = <<>>
    /\ diskGiveaway' = EmptyGiveaway
    /\ giveawayData' = EmptyGiveaway
    /\ procs' = [procs EXCEPT ![i].pc = "guild"]
    /\ reply' = "none"
    /\ UNCHANGED <<keyVars, faults, now, eventConfig, diskConfig, overall, timerVars, ops, hist>>

\* clearEventData, then captureBaseline up to its fetchGuildData
StartClear(i) ==
    /\ procs[i].kind = "start" /\ procs[i].pc = "clear"
    /\ files' = <<>>
    /\ overall' = <<>>
    /\ diskGiveaway' = EmptyGiveaway
    /\ giveawayData' = EmptyGiveaway
    /\ procs' = [procs EXCEPT ![i].pc = "guild"]
    /\ reply' = "none"
    /\ UNCHANGED <<keyVars, faults, now, eventConfig, diskConfig, timerVars, ops, hist>>

\* a stop that is accepted for any stored event, active or not
StopApplies_IfSet(cfg) == cfg.set

\* the event a stop can stop: this.eventConfig && this.eventConfig.active
StopApplies(cfg) == EventActive(cfg)

\* handleStopEvent up to its first await (the write of saveEventConfig is issued)
handleStopEvent(rank) ==
    /\ ops < MaxOps
    /\ IF ~HasPermission(rank) THEN Answer("stop: no permission")
       ELSE IF ~StopApplies(eventConfig) THEN Answer("stop: no active event")
       ELSE /\ Free # {}
            /\ StopTimers
            /\ eventConfig' = [eventConfig EXCEPT !.active = FALSE]
            /\ diskConfig' = saveEventConfig(eventConfig', diskConfig)
            /\ procs' = [procs EXCEPT ![Slot] =
                            [Proc("stop", "saved") EXCEPT
                                !.saved = (diskConfig' = eventConfig' /\ ~diskConfig'.active)]]
            /\ hist' = [hist EXCEPT !.activeEvents = 0]
            /\ ops' = ops + 1
            /\ reply' = "none"
            /\ UNCHANGED <<keyVars, faults, now, giveawayData, diskGiveaway, files, overall>>

\* handleEventStatus
handleEventStatus ==
    /\ ops < MaxOps
    /\ Answer(IF ~eventConfig.set THEN "status: no event"
              ELSE IF eventConfig.active THEN "status: active" ELSE "status: inactive")

\* a handler that starts with updateAllMembers, up to its fetchGuildData
BeginCycle(kind, h) ==
    /\ Free # {}
    /\ procs' = [procs EXCEPT ![Slot] = [Proc(kind, "guild") EXCEPT !.act = TRUE]]
    /\ hist' = h
    /\ ops' = ops + 1

\* handleSaveEventData
handleSaveEventData(rank) ==
    /\ ops < MaxOps
    /\ IF ~HasPermission(rank) THEN Answer("save: no permission")
       ELSE IF ~EventActive(eventConfig) THEN Answer("save: no active event")
       ELSE /\ BeginCycle("save", hist)
            /\ reply' = "save: saving"
            /\ UNCHANGED <<keyVars, faults, now, eventConfig, diskConfig, giveawayData, diskGiveaway, files,
                           overall, timerVars>>

\* a handler that runs generateDailyReport, up to the first await of
\* compileDailySummary: currentDay and the date are taken here
BeginReport(kind, h) ==
    /\ Free # {}
    /\ procs' = [procs EXCEPT ![Slot] =
                    [Proc(kind, "compile") EXCEPT
                        !.n = 1,
                        !.curDay = getCurrentDay(eventConfig, now),
                        !.curDate = Today(now),
                        !.act = EventActive(eventConfig)]]
    /\ hist' = h
    /\ ops' = ops + 1

\* handleDailyReport
handleDailyReport(rank) ==
    /\ ops < MaxOps
    /\ IF ~HasPermission(rank) THEN Answer("report: no permission")
       ELSE IF ~EventActive(eventConfig) THEN Answer("report: no active event")
       ELSE /\ BeginReport("report", hist)
            /\ reply' = "report: generating"
            /\ UNCHANGED <<keyVars, faults, now, eventConfig, diskConfig, giveawayData, diskGiveaway, files,
                           overall, timerVars>>

\* ------------------------------------------------- poll cycle and baseline
cycleKinds == {"start", "poll", "save", "flush"}

\* the day index a cycle writes: day 0 for captureBaselineForMember, the current
\* day of savePlayerStats for updateMemberStats
WriteDay(kind, cfg, t) == IF kind = "start" THEN 0 ELSE getCurrentDay(cfg, t)

\* the history of the last write of savePlayerStats: the day index it used, and
\* whether the clock lay in that day of the event, counted from the start date
Written(h, kind, cfg, t) ==
    IF kind = "start" THEN h
    ELSE LET day == WriteDay(kind, cfg, t)
         IN  [h EXCEPT !.lastWrite =
                 [wrote |-> TRUE, day |-> day,
                  fits |-> /\ DateTime(cfg.startDate) + (day - 1) * TicksPerDay <= t
                           /\ t < DateTime(cfg.startDate) + day * TicksPerDay,
                  inc |-> h.restarts]]

\* what follows the roster loop (or its early return), by handler:
\* handleStartEvent arms both timers and answers, handleSaveEventData answers,
\* the timer callback ends, saveOnExit goes on to saveEventConfig
Finish(i, p, h) ==
    /\ hist' = h
    /\ CASE p.kind = "start" ->
              /\ startUpdateTimer
              /\ startDailyReportTimer
              /\ reply' = "start: started"
              /\ procs' = [procs EXCEPT ![i] = Idle]
              /\ UNCHANGED diskConfig
         [] p.kind = "save" ->
              /\ reply' = "save: saved"
              /\ procs' = [procs EXCEPT ![i] = Idle]
              /\ UNCHANGED <<diskConfig, timerVars>>
         [] p.kind = "flush" ->
              /\ diskConfig' = saveEventConfig(eventConfig, diskConfig)
              /\ procs' = [procs EXCEPT ![i] = [p EXCEPT !.pc = "saveGiveaway",
                                                          !.saved = (diskConfig' = eventConfig)]]
              /\ reply' = "none"
              /\ UNCHANGED timerVars
         [] OTHER ->
              /\ procs' = [procs EXCEPT ![i] = Idle]
              /\ reply' = "none"
              /\ UNCHANGED <<diskConfig, timerVars>>

\* a roster loop that a member's error ends
AfterMember_Abort(p, ok) ==
    IF ok THEN [p EXCEPT !.pc = "sleep", !.n = @ + 1]
    ELSE [p EXCEPT !.pc = "member", !.idx = NumMembers + 1]

\* a roster loop whose catch block lets the error go on to the caller
AfterMember_Rethrow(p, ok) ==
    IF ok THEN [p EXCEPT !.pc = "sleep", !.n = @ + 1]
    ELSE [p EXCEPT !.pc = "member", !.idx = NumMembers + 1, !.n = @ + 1, !.errs = @ + 1]

\* the next stop of the loop after member idx: the inter-call sleep after a
\* success, the next member after a caught error
AfterMember(p, ok) ==
    IF ok THEN [p EXCEPT !.pc = "sleep", !.n = @ + 1]
    ELSE [p EXCEPT !.pc = "member", !.idx = @ + 1, !.n = @ + 1, !.errs = @ + 1]

\* an external call returned: a failure counts against the failures of the behaviour
Called(failed) ==
    /\ failed => faults < MaxFaults
    /\ faults' = IF failed THEN faults + 1 ELSE faults

\* the ways fetchGuildData ends: with the guild, with the Mojang lookup of the
\* bot's UUID refused, or with the guild request refused
GuildResults == {"ok", "mojang", "api"}

\* fetchGuildData of updateAllMembers / captureBaseline returns
CycleGuild(i, out) ==
    LET p == procs[i]
        ok == out = "ok"
        r == KeysAfter(hist, IF out = "mojang" THEN 0 ELSE 1)
        h == [HistAfter(hist, r) EXCEPT
                 !.resolvedAt = IF ~botUuidCache /\ out # "mojang" THEN now ELSE @]
    IN  /\ p.kind \in cycleKinds /\ p.pc = "guild"
        /\ out = "mojang" => ~botUuidCache
        /\ Called(~ok)
        /\ currentKeyIndex' = r.index
        /\ requestCount' = r.count
        /\ botUuidCache' = (botUuidCache \/ out # "mojang")
        /\ IF ok /\ NumMembers > 0
           THEN /\ procs' = [procs EXCEPT ![i] = [p EXCEPT !.pc = "member", !.idx = 1,
                                                          !.rosterOk = TRUE]]
                /\ reply' = "none"
                /\ hist' = h
                /\ UNCHANGED <<diskConfig, timerVars>>
           ELSE Finish(i, [p EXCEPT !.rosterOk = ok], h)
        /\ UNCHANGED <<hypixelApiKeys, now, eventConfig, giveawayData, diskGiveaway, files, overall, ops>>

\* updateMemberStats / captureBaselineForMember of member idx returns or throws
CycleMember(i, ok, sample, g) ==
    LET p == procs[i]
        q == AfterMember(p, ok)
        r == KeysAfter(hist, IF ok THEN 3 ELSE 1)
        h == IF ok THEN Written(HistAfter(hist, r), p.kind, eventConfig, now)
             ELSE HistAfter(hist, r)
    IN  /\ p.kind \in cycleKinds /\ p.pc = "member"
        /\ currentKeyIndex' = r.index
        /\ requestCount' = r.count
        /\ ~ok => g = <<TRUE, TRUE>>
        /\ Called(~ok \/ ~g[1] \/ ~g[2])
        /\ files' = IF ok
                    THEN WriteFile(files, <<Roster[p.idx], WriteDay(p.kind, eventConfig, now)>>,
                                   BuildStats(Roster[p.idx], sample, g[1], g[2]))
                    ELSE files
        /\ IF q.pc = "member" /\ q.idx > NumMembers
           THEN Finish(i, q, h)
           ELSE /\ procs' = [procs EXCEPT ![i] = q]
                /\ hist' = h
                /\ reply' = "none"
                /\ UNCHANGED <<diskConfig, timerVars>>
        /\ UNCHANGED <<hypixelApiKeys, botUuidCache, now, eventConfig, giveawayData, diskGiveaway,
                       overall, ops>>

\* the sleep(10000) after a member ends
CycleSleep(i) ==
    LET p == procs[i]
        q == [p EXCEPT !.pc = "member", !.idx = @ + 1]
    IN  /\ p.kind \in cycleKinds /\ p.pc = "sleep"
        /\ IF q.idx > NumMembers
           THEN Finish(i, q, hist)
           ELSE /\ procs' = [procs EXCEPT ![i] = q]
                /\ reply' = "none"
                /\ UNCHANGED <<diskConfig, timerVars, hist>>
        /\ UNCHANGED <<keyVars, faults, now, eventConfig, giveawayData, diskGiveaway, files, overall, ops>>

\* saveOnExit after saveEventConfig: saveGiveawayData, and the hook is done
FlushSaveGiveaway(i) ==
    LET p == procs[i]
    IN  /\ p.kind = "flush" /\ p.pc = "saveGiveaway"
        /\ diskGiveaway' = saveGiveawayData(giveawayData)
        /\ procs' = [procs EXCEPT ![i] = Idle]
        /\ hist' = [hist EXCEPT !.flushDone =
                       [ran |-> TRUE, rosterOk |-> p.rosterOk, n |-> p.n,
                        savedCfg |-> p.saved,
                        savedGiveaway |-> diskGiveaway' = giveawayData]]
        /\ reply' = "none"
        /\ UNCHANGED <<keyVars, faults, now, eventConfig, diskConfig, giveawayData, files, overall, timerVars,
                       ops>>

\* updateAllMembers starts a cycle only for an active event
CycleRuns(cfg) == EventActive(cfg)

\* a callback that found nothing to do
Nothing ==
    /\ ops' = ops + 1
    /\ UNCHANGED <<procs, hist>>

\* a tick of the poll interval: the callback calls updateAllMembers
PollTick ==
    /\ ops < MaxOps
    /\ updateTimer = "live"
    /\ IF CycleRuns(eventConfig) THEN BeginCycle("poll", hist) ELSE Nothing
    /\ reply' = "none"
    /\ UNCHANGED <<keyVars, faults, now, eventConfig, diskConfig, giveawayData, diskGiveaway, files, overall,
                   timerVars>>

\* the triggers saveOnExit is registered for
ExitTriggers == {"SIGINT", "SIGTERM", "beforeExit"}

\* 'beforeExit' is emitted only when the event loop has nothing left to run
TriggerPossible(trigger) ==
    trigger = "beforeExit" =>
        /\ Free = 1..MaxProcs
        /\ updateTimer # "live" /\ liveDaily = 0 /\ pendingTimeouts = 0 /\ dueTimeouts = 0

\* saveOnExit up to the fetchGuildData of its updateAllMembers
saveOnExit(trigger) ==
    /\ ops < MaxOps
    /\ TriggerPossible(trigger)
    /\ IF EventActive(eventConfig) /\ CycleRuns(eventConfig)
       THEN BeginCycle("flush", [hist EXCEPT !.flushes = @ + 1])
       ELSE Nothing
    /\ reply' = "none"
    /\ UNCHANGED <<keyVars, faults, now, eventConfig, diskConfig, giveawayData, diskGiveaway, files, overall,
                   timerVars>>

\* ------------------------------------------------ compile-and-report pass
reportKinds == {"stop", "report", "timeout", "daily"}

\* generateDailyReport(isFinal): only handleStopEvent passes true
IsFinal(kind) == kind = "stop"

\* the giveaway history after the draws of one pass; dayNumber is computed after
\* compileDailySummary returned, the weekly draw reads overall.json as it is then
DrawsOf(data, summary, dayNumber, cfg, allSummaries) ==
    LET stamped == [summary EXCEPT !.dayNumber = dayNumber]
        daily == selectDailyWinner(stamped)
        weekNumber == WeekNumber(dayNumber)
        weekly == IF IsWeeklyDay(dayNumber) THEN selectWeeklyWinner(allSummaries, weekNumber)
                  ELSE 0
    IN  [summary |-> [stamped EXCEPT !.dailyWinner = daily.winner, !.weeklyWinner = weekly],
         week |-> IF IsWeeklyDay(dayNumber)
                  THEN [drawn |-> TRUE, weekNumber |-> weekNumber,
                        used |-> WeekSummaries(allSummaries, weekNumber)]
                  ELSE NoWeek,
         data |->
           [dailyPools |->
                IF daily.pushed
                THEN Append(data.dailyPools, [date |-> stamped.date, dayNumber |-> dayNumber,
                                              eligiblePlayers |-> daily.pool])
                ELSE data.dailyPools,
            dailyWinners |->
                IF daily.winner # 0
                THEN Append(data.dailyWinners, [date |-> stamped.date, winner |-> daily.winner,
                                                dayNumber |-> dayNumber])
                ELSE data.dailyWinners,
            weeklyWinners |->
                IF weekly # 0
                THEN Append(data.weeklyWinners,
                            [weekNumber |-> weekNumber, winner |-> weekly,
                             startDate |-> cfg.startDate + (weekNumber - 1) * 7,
                             endDate |-> cfg.startDate + (weekNumber - 1) * 7 + 6])
                ELSE data.weeklyWinners]]

\* handleStopEvent after its saveEventConfig: generateDailyReport(true) begins
StopAfterSave(i) ==
    LET p == procs[i]
    IN  /\ p.kind = "stop" /\ p.pc = "saved"
        /\ procs' = [procs EXCEPT ![i] = [p EXCEPT !.pc = "compile", !.n = @ + 1,
                                                   !.curDay = getCurrentDay(eventConfig, now),
                                                   !.curDate = Today(now)]]
        /\ reply' = "none"
        /\ UNCHANGED <<keyVars, faults, now, eventConfig, diskConfig, giveawayData, diskGiveaway, files, overall,
                       timerVars, ops, hist>>

\* compileDailySummary returns; the draws run and saveGiveawayData is issued
ReportCompile(i) ==
    LET p == procs[i]
        summary == compileDailySummary(files, p.curDay, p.curDate)
        drawn == DrawsOf(giveawayData, summary, getCurrentDay(eventConfig, now), eventConfig,
                         overall)
    IN  /\ p.kind \in reportKinds /\ p.pc = "compile"
        /\ giveawayData' = drawn.data
        /\ diskGiveaway' = saveGiveawayData(giveawayData')
        /\ procs' = [procs EXCEPT ![i] = [p EXCEPT !.pc = "summary", !.sum = drawn.summary,
                                                   !.week = drawn.week,
                                                   !.gains = PlayerGains(files, 1, p.curDay)]]
        /\ reply' = "none"
        /\ UNCHANGED <<keyVars, faults, now, eventConfig, diskConfig, files, overall, timerVars, ops, hist>>

\* saveOverallSummary that writes nothing
saveOverallSummary_Skip(allSummaries, summary) == allSummaries

\* saveOverallSummary: what overall.json holds after it
saveOverallSummary(allSummaries, summary) == Append(allSummaries, summary)

\* saveOverallSummary is awaited; sendEmbed is issued
ReportSaveOverall(i) ==
    LET p == procs[i]
    IN  /\ p.kind \in reportKinds /\ p.pc = "summary"
        /\ overall' = saveOverallSummary(overall, p.sum)
        /\ procs' = [procs EXCEPT ![i] = [p EXCEPT !.pc = "send"]]
        /\ reply' = "none"
        /\ UNCHANGED <<keyVars, faults, now, eventConfig, diskConfig, giveawayData, diskGiveaway, files,
                       timerVars, ops, hist>>

\* sendEmbed resolves or rejects (the rejection is caught and logged); the
\* handler that asked for the pass goes on
ReportSend(i, delivered) ==
    LET p == procs[i]
    IN  /\ p.kind \in reportKinds /\ p.pc = "send"
        /\ Called(~delivered)
        /\ procs' = [procs EXCEPT ![i] = Idle]
        /\ CASE p.kind = "stop" ->
                  /\ reply' = "stop: stopped"
                  /\ hist' = [hist EXCEPT !.stopDone = [ran |-> TRUE, saved |-> p.saved,
                                                        passes |-> p.n, final |-> IsFinal(p.kind)]]
                  /\ UNCHANGED timerVars
             [] p.kind = "report" ->
                  /\ reply' = "report: sent"
                  /\ UNCHANGED <<hist, timerVars>>
             [] p.kind = "timeout" ->
                  /\ ArmDailyInterval
                  /\ reply' = "none"
                  /\ UNCHANGED <<hist, updateTimer, pendingTimeouts, dueTimeouts, dueDaily>>
             [] OTHER ->
                  /\ reply' = "none"
                  /\ UNCHANGED <<hist, timerVars>>
        /\ UNCHANGED <<keyVars, now, eventConfig, diskConfig, giveawayData, diskGiveaway, files,
                       overall, ops>>

\* the first-midnight setTimeout fires: generateDailyReport, then the interval
TimeoutFire ==
    /\ ops < MaxOps
    /\ dueTimeouts > 0
    /\ dueTimeouts' = dueTimeouts - 1
    /\ IF eventConfig.set
       THEN /\ BeginReport("timeout", hist)
            /\ UNCHANGED <<dailyReportTimer, liveDaily>>
       ELSE /\ ArmDailyInterval
            /\ Nothing
    /\ reply' = "none"
    /\ UNCHANGED <<keyVars, faults, now, eventConfig, diskConfig, giveawayData, diskGiveaway, files, overall,
                   updateTimer, pendingTimeouts, dueDaily>>

\* a tick of a 24-hour interval: generateDailyReport
DailyTick ==
    /\ ops < MaxOps
    /\ dueDaily > 0
    /\ dueDaily' = dueDaily - 1
    /\ IF eventConfig.set THEN BeginReport("daily", hist) ELSE Nothing
    /\ reply' = "none"
    /\ UNCHANGED <<keyVars, faults, now, eventConfig, diskConfig, giveawayData, diskGiveaway, files, overall,
                   updateTimer, dailyReportTimer, pendingTimeouts, dueTimeouts, liveDaily>>

\* ------------------------------------------------------ clock and restart
\* the last clock value followed: MaxTicks ticks, and one more day while a
\* 24-hour interval is live, so that it comes due
ClockEnd == InitNow + MaxTicks + (IF liveDaily > 0 THEN TicksPerDay ELSE 0)

\* the wall clock advances; at midnight the first-midnight timeouts and the
\* 24-hour intervals become due
Advance ==
    /\ now' = now + 1
    /\ IF now' % TicksPerDay = 0
       THEN /\ dueTimeouts' = dueTimeouts + pendingTimeouts
            /\ pendingTimeouts' = 0
            /\ dueDaily' = liveDaily
       ELSE UNCHANGED <<dueTimeouts, pendingTimeouts, dueDaily>>
    /\ reply' = "none"
    /\ UNCHANGED <<eventConfig, diskConfig, giveawayData, diskGiveaway, files, overall,
                   updateTimer, dailyReportTimer, liveDaily, procs, ops, faults, keyVars, hist>>

\* the clock of a behaviour that starts at InitNow
Tick == now < ClockEnd /\ Advance

\* resumeEvent without its check for an active event
ResumeArms_Always(cfg) == cfg.set

\* resumeEvent: both timers are armed for an active event
ResumeArms(cfg) == EventActive(cfg)

\* the process dies and a new one runs init(): loadEventConfig, loadGiveawayData,
\* resumeEvent for an active event; every handler and timer of the old process is gone
Restart ==
    /\ ops < MaxOps
    /\ eventConfig' = diskConfig
    /\ giveawayData' = diskGiveaway
    /\ updateTimer' = IF ResumeArms(eventConfig') THEN "live" ELSE "null"
    /\ pendingTimeouts' = IF ResumeArms(eventConfig') THEN 1 ELSE 0
    /\ dailyReportTimer' = "null"
    /\ dueTimeouts' = 0
    /\ liveDaily' = 0
    /\ dueDaily' = 0
    /\ procs' = [i \in 1..MaxProcs |-> Idle]
    /\ reply' = "none"
    /\ ops' = ops + 1
    /\ currentKeyIndex' = 0
    /\ requestCount' = 0
    /\ botUuidCache' = FALSE
    /\ hist' = [hist EXCEPT !.restarts = @ + 1, !.flushes = 0, !.keyCalls = 0, !.lastKey = "", !.resolvedAt = 0,
                            !.activeEvents = IF EventActive(diskConfig) THEN 1 ELSE 0]
    /\ UNCHANGED <<hypixelApiKeys, faults, now, diskConfig, diskGiveaway, files, overall>>

\* ------------------------------------------------------------ the system
Next ==
    \/ \E m \in StartInputs : handleStartEvent(m)
    \/ \E rank \in Ranks : handleStopEvent(rank)
    \/ \E rank \in Ranks : handleDailyReport(rank)
    \/ \E rank \in Ranks : handleSaveEventData(rank)
    \/ handleEventStatus
    \/ \E trigger \in ExitTriggers : saveOnExit(trigger)
    \/ PollTick
    \/ TimeoutFire
    \/ DailyTick
    \/ Tick
    \/ Restart
    \/ \E i \in 1..MaxProcs : StartClear(i)
    \/ \E i \in 1..MaxProcs, out \in GuildResults : CycleGuild(i, out)
    \/ \E i \in 1..MaxProcs, ok \in BOOLEAN, sample \in PlayerSamples, g \in GuildOutcomes :
          CycleMember(i, ok, sample, g)
    \/ \E i \in 1..MaxProcs : CycleSleep(i)
    \/ \E i \in 1..MaxProcs : FlushSaveGiveaway(i)
    \/ \E i \in 1..MaxProcs : StopAfterSave(i)
    \/ \E i \in 1..MaxProcs : ReportCompile(i)
    \/ \E i \in 1..MaxProcs : ReportSaveOverall(i)
    \/ \E i \in 1..MaxProcs, delivered \in BOOLEAN : ReportSend(i, delivered)

Spec == Init /\ [][Next]_vars

\* ------------------------------------------- the credential rotator alone
\* any of the key lists the environment can give
RotatorInit == \E keys \in KeyLists : Boot(keys)

\* one request to the Hypixel API: getNextApiKey hands out its key
ApiRequest ==
    LET r == KeysAfter(hist, 1)
    IN  /\ hist.keyCalls < MaxCalls
        /\ currentKeyIndex' = r.index
        /\ requestCount' = r.count
        /\ hist' = HistAfter(hist, r)
        /\ UNCHANGED <<hypixelApiKeys, botUuidCache, now, eventConfig, diskConfig, giveawayData,
                       diskGiveaway, files, overall, timerVars, procs, reply, ops, faults>>

RotatorNext == ApiRequest

RotatorSpec == RotatorInit /\ [][RotatorNext]_vars

\* ------------------------------------ the report pass on a data directory
\* baseline records (day0.json) a data directory may hold
BaselineSamples ==
    {[weekly |-> 5, daily |-> 2, bedwars |-> Family(1), skywars |-> NoFamily,
      networkLevel |-> 1004],
     [weekly |-> 0, daily |-> 0, bedwars |-> NoFamily, skywars |-> Family(2),
      networkLevel |-> 2000]}

\* records of the running day it may hold
DaySamples ==
    {[weekly |-> 5, daily |-> 2, bedwars |-> Family(1), skywars |-> NoFamily,
      networkLevel |-> 1004],
     [weekly |-> 9, daily |-> 3, bedwars |-> Family(3), skywars |-> Family(1),
      networkLevel |-> 2019],
     [weekly |-> 3, daily |-> 0, bedwars |-> NoFamily, skywars |-> NoFamily,
      networkLevel |-> 1004]}

\* the day of the event the pass runs on
ReportDays == {0 - 1, 1, 7, 14}

\* the event that is running: its start date is day 3 of the calendar
RunningEvent == [set |-> TRUE, name |-> "A", startDate |-> 3, endDate |-> 30,
                 updateInterval |-> parseInterval(Interval(2, "h")), active |-> TRUE]

\* the summary an earlier pass left in overall.json for one day, with one player
PriorSummary(day, username, gained) ==
    [date |-> day, totalPlayers |-> 1, totalGexpGained |-> gained,
     topGexpGainers |-> <<[username |-> username, gained |-> gained]>>,
     topBedwarsWins |-> <<[username |-> username, wins |-> 0]>>,
     topSkywarsWins |-> <<[username |-> username, wins |-> 0]>>,
     topNetworkLevelGain |-> <<[username |-> username, gained |-> 0]>>,
     dailyWinner |-> username, weeklyWinner |-> 0, dayNumber |-> day, compiledDay |-> day]

\* the summaries earlier passes may have left, in the order of their days
PriorSummaries == <<PriorSummary(5, 2, 3), PriorSummary(6, 1, 4), PriorSummary(13, 2, 3)>>

\* the histories overall.json may hold on a day: any of the earlier summaries
PriorHistories(day) ==
    {SelectSeq(PriorSummaries, LAMBDA e : e.dayNumber < day /\ e.dayNumber \in kept) :
        kept \in SUBSET {PriorSummaries[i].dayNumber : i \in 1..Len(PriorSummaries)}}

\* the giveaway history those passes left
PriorGiveaway(history) ==
    [dailyWinners |-> [i \in 1..Len(history) |->
                          [date |-> history[i].date, winner |-> history[i].dailyWinner,
                           dayNumber |-> history[i].dayNumber]],
     weeklyWinners |-> <<>>,
     dailyPools |-> [i \in 1..Len(history) |->
                        [date |-> history[i].date, dayNumber |-> history[i].dayNumber,
                         eligiblePlayers |-> EligiblePool(history[i])]]]

\* the player files of a data directory: the baselines of the members in hasBase
\* and the day records of the members in hasDay
FilesOf(hasBase, base, hasDay, rec, day) ==
    [k \in {<<u, 0>> : u \in hasBase} \cup {<<u, day>> : u \in hasDay} |->
        IF k[2] = 0 THEN BuildStats(k[1], base[k[1]], TRUE, TRUE)
        ELSE BuildStats(k[1], rec[k[1]], TRUE, TRUE)]

\* a process that has resumed the running event on the last tick of some day,
\* over some data directory, with one command still to come
ReportInit ==
    \E day \in ReportDays, hasBase \in SUBSET Members, hasDay \in SUBSET Members,
       base \in [Members -> BaselineSamples], rec \in [Members -> DaySamples] :
       \E history \in PriorHistories(day) :
          /\ now = DateTime(RunningEvent.startDate + day) - 1
          /\ eventConfig = RunningEvent
          /\ diskConfig = RunningEvent
          /\ giveawayData = PriorGiveaway(history)
          /\ diskGiveaway = PriorGiveaway(history)
          /\ files = FilesOf(hasBase, base, hasDay, rec, day)
          /\ overall = history
          /\ updateTimer = "live"
          /\ dailyReportTimer = "null"
          /\ pendingTimeouts = 1
          /\ dueTimeouts = 0
          /\ liveDaily = 0
          /\ dueDaily = 0
          /\ procs = [i \in 1..MaxProcs |-> Idle]
          /\ reply = "none"
          /\ ops = MaxOps - 1
          /\ faults = 0
          /\ hypixelApiKeys = <<"key1", "key2">>
          /\ currentKeyIndex = 0
          /\ requestCount = 0
          /\ botUuidCache = FALSE
          /\ hist = [InitHist EXCEPT !.activeEvents = 1]

\* midnight passes while a pass waits for its compileDailySummary
MidnightInPass ==
    /\ \E i \in 1..MaxProcs : procs[i].kind \in reportKinds /\ procs[i].pc = "compile"
    /\ (now + 1) % TicksPerDay = 0
    /\ Advance

\* a forced report or a stop, and the pass it runs
ReportNext ==
    \/ MidnightInPass
    \/ \E rank \in Ranks : handleDailyReport(rank)
    \/ \E rank \in Ranks : handleStopEvent(rank)
    \/ \E i \in 1..MaxProcs : StopAfterSave(i)
    \/ \E i \in 1..MaxProcs : ReportCompile(i)
    \/ \E i \in 1..MaxProcs : ReportSaveOverall(i)
    \/ \E i \in 1..MaxProcs, delivered \in BOOLEAN : ReportSend(i, delivered)

ReportSpec == ReportInit /\ [][ReportNext]_vars

\* ----------------------------- a start over the data of a stopped event
\* the configuration of an event that was stopped
StoppedEvent == [RunningEvent EXCEPT !.active = FALSE]

\* the day of the stopped event on which its last records were written
LastDay == 7

\* a process that loaded a stopped event and the data it left: baselines, some
\* records of its last day, its summaries and giveaway history; one command
\* and one restart are still to come
CrashInit ==
    \E hasDay \in SUBSET Members, base \in [Members -> BaselineSamples],
       rec \in [Members -> DaySamples] :
       \E history \in PriorHistories(LastDay) :
          /\ now = InitNow
          /\ eventConfig = StoppedEvent
          /\ diskConfig = StoppedEvent
          /\ giveawayData = PriorGiveaway(history)
          /\ diskGiveaway = PriorGiveaway(history)
          /\ files = FilesOf(Members, base, hasDay, rec, LastDay)
          /\ overall = history
          /\ updateTimer = "null"
          /\ dailyReportTimer = "null"
          /\ pendingTimeouts = 0
          /\ dueTimeouts = 0
          /\ liveDaily = 0
          /\ dueDaily = 0
          /\ procs = [i \in 1..MaxProcs |-> Idle]
          /\ reply = "none"
          /\ ops = MaxOps - 2
          /\ faults = 0
          /\ hypixelApiKeys = <<"key1", "key2">>
          /\ currentKeyIndex = 0
          /\ requestCount = 0
          /\ botUuidCache = FALSE
          /\ hist = InitHist

\* a start command with its baseline capture, and a crash of the process
CrashNext ==
    \/ \E m \in StartInputs : handleStartEvent(m)
    \/ \E i \in 1..MaxProcs : StartClear(i)
    \/ \E i \in 1..MaxProcs, out \in GuildResults : CycleGuild(i, out)
    \/ \E i \in 1..MaxProcs, ok \in BOOLEAN, sample \in PlayerSamples, g \in GuildOutcomes :
          CycleMember(i, ok, sample, g)
    \/ \E i \in 1..MaxProcs : CycleSleep(i)
    \/ Restart

CrashSpec == CrashInit /\ [][CrashNext]_vars

\* ================================================================ claims
\* the updateAllMembers cycles in progress
CyclesInProgress ==
    {i \in 1..MaxProcs : procs[i].kind \in {"poll", "save", "flush"}
                         /\ procs[i].pc \in {"guild", "member", "sleep"}}

\* C1: at most one poll cycle (updateAllMembers) is in progress at any time; a
\* tick of the poll timer during a suspended cycle starts no second cycle.
C1_AtMostOnePollCycle == Cardinality(CyclesInProgress) <= 1

\* what a rejected start command must leave alone
C2_Frame == <<eventConfig, diskConfig, files, overall, giveawayData, diskGiveaway, timerVars,
              procs>>

\* C2: a start command handled while an event is active changes nothing (the
\* EventConfig, the snapshot files, the summary history, the giveaway history and
\* the timers stay the same) and is answered with the conflict message, or with
\* the permission message when the requester has no privileged rank.
C2_StartWhileActiveRejected ==
    [][\A m \in StartInputs :
          (EventActive(eventConfig) /\ handleStartEvent(m))
          => /\ UNCHANGED C2_Frame
             /\ reply' = IF HasPermission(m.rank) THEN "start: already active"
                         ELSE "start: no permission"]_vars

\* C2 witness: a privileged start was just answered with the conflict message
\* while the event stays active and its records are in place.
C2_Witness ==
    /\ reply = "start: already active"
    /\ EventActive(eventConfig)
    /\ files # <<>>

C4_TimersDisarmedAfterStop ==
    /\ (eventConfig.set /\ ~eventConfig.active
        /\ \A i \in 1..MaxProcs : procs[i].kind # "start")
       => /\ updateTimer # "live"
          /\ pendingTimeouts = 0 /\ dueTimeouts = 0
          /\ liveDaily = 0 /\ dueDaily = 0
    /\ \A i \in 1..MaxProcs : procs[i].kind \in {"timeout", "daily"} => procs[i].act

\* C5: a stop handler has persisted the inactive configuration before its report
\* pass begins, and runs exactly one pass, flagged final.
C5_StopPersistsThenOneFinalPass ==
    /\ \A i \in 1..MaxProcs :
          procs[i].kind = "stop"
          => /\ procs[i].saved
             /\ procs[i].pc \in {"saved", "compile", "summary", "send"}
             /\ procs[i].n = IF procs[i].pc = "saved" THEN 0 ELSE 1
    /\ hist.stopDone.ran
       => hist.stopDone.saved /\ hist.stopDone.passes = 1 /\ hist.stopDone.final

\* C5 witness: a stop handler has run to its end and its summary is in the history.
C5_Witness ==
    /\ hist.stopDone.ran
    /\ ~eventConfig.active /\ ~diskConfig.active
    /\ overall # <<>>

\* C6: a process start writes nothing to the data directory; it arms the poll
\* timer and the first-midnight timeout when the persisted EventConfig is
\* active, and arms no timer otherwise.
C6_ResumeArmsAndWritesNothing ==
    [][hist'.restarts # hist.restarts
       => /\ UNCHANGED diskVars
          /\ eventConfig' = diskConfig
          /\ IF diskConfig.set /\ diskConfig.active
             THEN updateTimer' = "live" /\ pendingTimeouts' = 1
             ELSE updateTimer' # "live" /\ pendingTimeouts' = 0
          /\ dueTimeouts' = 0 /\ liveDaily' = 0 /\ dueDaily' = 0]_vars

\* C6 witness: the process was restarted during an active event: both timers
\* are armed and the baseline records are where they were.
C6_Witness ==
    /\ hist.restarts >= 1
    /\ EventActive(eventConfig)
    /\ updateTimer = "live" /\ pendingTimeouts = 1
    /\ \A u \in Members : <<u, 0>> \in DOMAIN files
    /\ reply = "none" /\ ops = 2

\* C7: the day index of every snapshot write is the day of the event the clock
\* lies in, counted from the start date: start + (day - 1) days <= now < start +
\* day days, whatever polls, reports and restarts came before.
C7_DayIndexFromClock == hist.lastWrite.wrote => hist.lastWrite.fits

\* C7 witness: after a restart, a poll wrote a record for day 2.
C7_Witness ==
    /\ hist.lastWrite.wrote
    /\ hist.lastWrite.inc >= 1
    /\ hist.lastWrite.day = 2

\* the state part of C8: a shutdown flush that reaches saveGiveawayData has
\* attempted every roster member (when the roster lookup answered) and has
\* persisted the EventConfig; a finished flush has persisted the giveaway history too
C8_FlushComplete ==
    /\ \A i \in 1..MaxProcs :
          (procs[i].kind = "flush" /\ procs[i].pc = "saveGiveaway")
          => /\ procs[i].saved
             /\ procs[i].rosterOk => procs[i].n = NumMembers
    /\ hist.flushDone.ran
       => /\ hist.flushDone.savedCfg /\ hist.flushDone.savedGiveaway
          /\ hist.flushDone.rosterOk => hist.flushDone.n = NumMembers

\* C8: a termination trigger during an active event runs a poll cycle over the
\* whole roster and then persists the EventConfig and the giveaway history; the
\* trigger itself never ends the process; with no active event it writes nothing.
C8_ShutdownFlush ==
    /\ []C8_FlushComplete
    /\ [][\A trigger \in ExitTriggers :
             saveOnExit(trigger)
             => IF EventActive(eventConfig)
                THEN \E i \in 1..MaxProcs : procs'[i].kind = "flush" /\ procs[i].kind = "idle"
                ELSE UNCHANGED <<diskVars, procs, eventConfig, giveawayData>>]_vars

\* C8 witness: a flush has finished after attempting both members.
C8_Witness ==
    /\ hist.flushDone.ran
    /\ hist.flushDone.rosterOk
    /\ hist.flushDone.n = NumMembers
    /\ diskConfig = eventConfig /\ diskGiveaway = giveawayData

\* C9: the shutdown flush is started at most once in a process lifetime, and two
\* flushes never run at the same time.
C9_FlushSingleShot ==
    /\ hist.flushes <= 1
    /\ Cardinality({i \in 1..MaxProcs : procs[i].kind = "flush"}) <= 1

\* C10: every record written by savePlayerStats (poll cycle, manual save,
\* shutdown flush) has a day index of at least 1, so the day-0 baseline is
\* written by baseline capture only.
C10_PollWritesDayAtLeast1 == hist.lastWrite.wrote => hist.lastWrite.day >= 1

\* the handlers suspended in a roster loop (poll cycle or baseline capture)
InRosterLoop(i) ==
    procs[i].kind \in {"start", "poll", "save", "flush"} /\ procs[i].pc \in {"member", "sleep"}

\* the state part of C11: in a roster loop every member before the current one
\* has been attempted, whether its fetch failed or not
C11_AllAttempted ==
    \A i \in 1..MaxProcs :
        InRosterLoop(i)
        => /\ procs[i].idx \in 1..NumMembers
           /\ procs[i].errs <= procs[i].n
           /\ procs[i].n = IF procs[i].pc = "member" THEN procs[i].idx - 1 ELSE procs[i].idx

\* C11: a failed fetch of one member is skipped: the loop goes on to the next
\* member, and a roster loop (poll cycle or baseline capture) is left only from
\* its last member, by the handler's normal continuation.
C11_FailureSkipped ==
    /\ []C11_AllAttempted
    /\ [][\A i \in 1..MaxProcs :
             (InRosterLoop(i) /\ hist'.restarts = hist.restarts)
             => \/ procs'[i] = procs[i]
                \/ /\ procs'[i].kind = procs[i].kind
                   /\ procs'[i].pc \in {"member", "sleep"}
                   /\ procs'[i].idx \in {procs[i].idx, procs[i].idx + 1}
                \/ /\ procs[i].idx = NumMembers
                   /\ procs'[i] = Idle \/ (procs[i].kind = "flush" /\ procs'[i].pc = "saveGiveaway")]_vars

\* C11 witness: in a poll cycle the first member's fetch failed and the second
\* member has been polled.
C11_Witness ==
    \E i \in 1..MaxProcs :
        /\ procs[i].kind = "poll" /\ procs[i].pc = "sleep"
        /\ procs[i].idx = NumMembers /\ procs[i].errs = 1 /\ procs[i].n = NumMembers
        /\ <<Roster[NumMembers], getCurrentDay(eventConfig, now)>> \in DOMAIN files
        /\ <<Roster[1], getCurrentDay(eventConfig, now)>> \notin DOMAIN files

\* C12: with K keys, the k-th call of getNextApiKey since the process started
\* returns key number floor((k - 1) / 65) mod K, the current index stays within
\* 0..K-1, and with no key every call returns the empty key.
C12_RoundRobinEvery65 ==
    LET K == Len(hypixelApiKeys)
        k == hist.keyCalls
    IN  IF K = 0
        THEN hist.lastKey = "" /\ currentKeyIndex = 0
        ELSE /\ currentKeyIndex \in 0..(K - 1)
             /\ k >= 1 => hist.lastKey = hypixelApiKeys[(((k - 1) \div 65) % K) + 1]

\* C12 witness: with two keys the 131st call is served by the first key again.
C12_Witness ==
    /\ Len(hypixelApiKeys) = 2
    /\ hist.keyCalls = 131
    /\ hist.lastKey = hypixelApiKeys[1]
    /\ currentKeyIndex = 0

\* C13: the summary history (overall.json) holds at most one DailySummary per
\* day index; a pass run again for the same day replaces that day's entry.
C13_OneSummaryPerDay ==
    \A i, j \in 1..Len(overall) :
        i # j => overall[i].dayNumber # overall[j].dayNumber

\* the names in the four leaderboards of a summary
BoardNames(summary) ==
    {summary.topGexpGainers[i].username : i \in 1..Len(summary.topGexpGainers)}
    \cup {summary.topBedwarsWins[i].username : i \in 1..Len(summary.topBedwarsWins)}
    \cup {summary.topSkywarsWins[i].username : i \in 1..Len(summary.topSkywarsWins)}
    \cup {summary.topNetworkLevelGain[i].username : i \in 1..Len(summary.topNetworkLevelGain)}

\* C14: the pool a pass records for its day holds only names of that day's
\* leaderboards, and every recorded daily winner is in a recorded pool of the
\* winner's day number.
C14_WinnerFromRecordedPool ==
    /\ \A i \in 1..MaxProcs :
          (procs[i].kind \in reportKinds /\ procs[i].pc = "summary")
          => \A j \in 1..Len(giveawayData.dailyPools) :
                (j > Len(PriorGiveaway(overall).dailyPools)
                 /\ giveawayData.dailyPools[j].dayNumber = procs[i].sum.dayNumber)
                => \A k \in 1..Len(giveawayData.dailyPools[j].eligiblePlayers) :
                      giveawayData.dailyPools[j].eligiblePlayers[k] \in BoardNames(procs[i].sum)
    /\ \A w \in 1..Len(giveawayData.dailyWinners) :
          \E j \in 1..Len(giveawayData.dailyPools) :
             /\ giveawayData.dailyPools[j].dayNumber = giveawayData.dailyWinners[w].dayNumber
             /\ InSeq(giveawayData.dailyPools[j].eligiblePlayers,
                      giveawayData.dailyWinners[w].winner)

\* the step of a pass from compileDailySummary to the draws made and issued
Drawn(i) ==
    /\ procs[i].kind \in reportKinds /\ procs[i].pc = "compile"
    /\ procs'[i].kind = procs[i].kind /\ procs'[i].pc = "summary"

\* C15: a pass whose day has no participant, or whose gains of the primary
\* metric add up to zero, records no daily winner: the winner list stays as it
\* is, the summary carries no daily winner, and the pass goes on as usual.
C15_NoWinnerOnZeroTotal ==
    [][\A i \in 1..MaxProcs :
          (Drawn(i) /\ (procs'[i].gains = <<>> \/ SumField(procs'[i].gains, "gexp") = 0))
          => /\ giveawayData'.dailyWinners = giveawayData.dailyWinners
             /\ diskGiveaway'.dailyWinners = diskGiveaway.dailyWinners
             /\ procs'[i].sum.dailyWinner = 0]_vars

\* C15 witness: two participants whose gains cancel (neither is zero), and the
\* summary of the pass carries no daily winner.
C15_Witness ==
    \E i \in 1..MaxProcs :
        /\ procs[i].kind \in reportKinds /\ procs[i].pc = "summary"
        /\ Len(procs[i].gains) = 2
        /\ procs[i].gains[1].gexp # 0
        /\ SumField(procs[i].gains, "gexp") = 0
        /\ procs[i].sum.dailyWinner = 0

\* C16: a recorded daily winner has a gain in the primary leaderboard, and its
\* score (gain divided by the day's average) is strictly higher than the score
\* of every other scored member of the pool.
C16_StrictlyHighestScore ==
    \A i \in 1..MaxProcs :
        (procs[i].kind \in reportKinds /\ procs[i].pc = "summary"
         /\ procs[i].sum.dailyWinner # 0)
        => LET summary == procs[i].sum
               winner == summary.dailyWinner
           IN  /\ GexpOf(summary, winner) # 0
               /\ \A u \in BoardNames(summary) \ {winner} :
                     GexpOf(summary, u) # 0
                     => IF summary.totalGexpGained > 0
                        THEN GexpOf(summary, winner) > GexpOf(summary, u)
                        ELSE GexpOf(summary, winner) < GexpOf(summary, u)

\* the state part of C17: the weekly draw a pass has made, against its day number
C17_DrawOfPass ==
    \A i \in 1..MaxProcs :
        (procs[i].kind \in reportKinds /\ procs[i].pc = "summary")
        => LET day == procs[i].sum.dayNumber
               week == procs[i].week
           IN  /\ week.drawn <=> (\E w \in (0 - 1)..3 : day = 7 * w)
               /\ week.drawn => day = 7 * week.weekNumber
               /\ \A k \in 1..Len(week.used) :
                     /\ \E j \in 1..Len(overall) : overall[j] = week.used[k]
                     /\ week.used[k].dayNumber >= 7 * (week.weekNumber - 1) + 1
                     /\ week.used[k].dayNumber <= 7 * week.weekNumber
               /\ procs[i].sum.weeklyWinner # 0 => week.drawn /\ week.used # <<>>

\* C17: a pass makes a weekly draw exactly when its day number is a multiple of
\* 7, for week w = day number / 7, and that draw reads only summaries of the
\* history whose day number lies in 7(w - 1) + 1 .. 7w; a weekly winner is
\* recorded by such a pass only.
C17_WeeklyDrawOnSeventhDays ==
    /\ []C17_DrawOfPass
    /\ [][\A i \in 1..MaxProcs :
             (Drawn(i) /\ ~procs'[i].week.drawn)
             => giveawayData'.weeklyWinners = giveawayData.weeklyWinners]_vars

\* C17 witness: on day 14 the draw for week 2 read the summary of day 13 and
\* not the summary of day 6 that the history holds too, and found a winner.
C17_Witness ==
    \E i \in 1..MaxProcs :
        /\ procs[i].kind \in reportKinds /\ procs[i].pc = "summary"
        /\ procs[i].sum.dayNumber = 14
        /\ procs[i].week.drawn /\ procs[i].week.weekNumber = 2
        /\ Len(procs[i].week.used) = 1 /\ procs[i].week.used[1].dayNumber = 13
        /\ \E j \in 1..Len(overall) : overall[j].dayNumber = 6
        /\ procs[i].sum.weeklyWinner # 0
        /\ giveawayData.weeklyWinners # <<>>

\* one list is the beginning of the other
IsPrefix(s, t) == Len(s) <= Len(t) /\ \A i \in 1..Len(s) : t[i] = s[i]

\* every collection of one giveaway history is the beginning of the other's
Grows(a, b) ==
    /\ IsPrefix(a.dailyWinners, b.dailyWinners)
    /\ IsPrefix(a.weeklyWinners, b.weeklyWinners)
    /\ IsPrefix(a.dailyPools, b.dailyPools)

\* the step in which an accepted start clears the data of the event before
ClearsForStart ==
    \E i \in 1..MaxProcs :
        procs[i].kind = "start" /\ procs[i].pc = "clear" /\ procs'[i].pc = "guild"

DeliveryFails(i) ==
    /\ procs[i].kind \in reportKinds /\ procs[i].pc = "send"
    /\ procs'[i].kind = "idle"
    /\ faults' = faults + 1

\* C19: when the delivery of a report fails, the giveaway history and the
\* summary history stay on disk as the pass wrote them (its pushes are in the
\* giveaway file, its summary is the last of the summary history), and the
\* handler that ran the pass goes on as after a delivery.
C19_DeliveryFailureKeepsState ==
    [][\A i \in 1..MaxProcs :
          DeliveryFails(i)
          => /\ UNCHANGED <<diskGiveaway, giveawayData, overall, files, diskConfig>>
             /\ diskGiveaway' = giveawayData'
             /\ overall' # <<>> /\ overall'[Len(overall')] = procs[i].sum
             /\ reply' = CASE procs[i].kind = "stop" -> "stop: stopped"
                           [] procs[i].kind = "report" -> "report: sent"
                           [] OTHER -> "none"]_vars

\* C19 witness: the final report of a stop could not be delivered; the winner
\* the pass drew is in the persisted giveaway history and in the last summary.
C19_Witness ==
    /\ faults = 1
    /\ reply = "stop: stopped"
    /\ overall # <<>> /\ overall[Len(overall)].dailyWinner # 0
    /\ diskGiveaway.dailyWinners # <<>>
    /\ diskGiveaway.dailyWinners[Len(diskGiveaway.dailyWinners)].winner
          = overall[Len(overall)].dailyWinner
    /\ Len(diskGiveaway.dailyWinners) = Len(overall)

\* the wins a record counts for a game: those of its block, none without one
CountedWins(rec, game) == IF rec[game].has THEN rec[game].wins ELSE 0

\* the entry of one member among the computed gains is today minus baseline
GainIsDifference(gains, u, today, baseline) ==
    \E k \in 1..Len(gains) :
       /\ gains[k].username = u
       /\ gains[k].gexp = today.weekly - baseline.weekly
       /\ gains[k].bwWins = CountedWins(today, "bedwars") - CountedWins(baseline, "bedwars")
       /\ gains[k].swWins = CountedWins(today, "skywars") - CountedWins(baseline, "skywars")
       /\ gains[k].nwLevel = today.networkLevel - baseline.networkLevel

\* C20: for every member with a baseline and a record of the compiled day, the
\* gain computed for each metric (experience, bedwars wins, skywars wins,
\* network level) is the day record's value minus the baseline's, a game block
\* missing from either record counting as zero.
C20_GainIsDayMinusBaseline ==
    \A i \in 1..MaxProcs :
       (procs[i].kind \in reportKinds /\ procs[i].pc = "summary")
       => \A u \in Members :
             ({<<u, 0>>, <<u, procs[i].curDay>>} \subseteq DOMAIN files)
             => GainIsDifference(procs[i].gains, u, files[<<u, procs[i].curDay>>],
                                 files[<<u, 0>>])

\* C20 witness: a pass has computed the gains of a member whose baseline has no
\* bedwars block while the day record has one, and whose skywars wins went down.
C20_Witness ==
    \E i \in 1..MaxProcs, u \in Members :
       /\ procs[i].kind \in reportKinds /\ procs[i].pc = "summary"
       /\ {<<u, 0>>, <<u, procs[i].curDay>>} \subseteq DOMAIN files
       /\ procs[i].curDay # 0
       /\ ~files[<<u, 0>>].bedwars.has /\ files[<<u, procs[i].curDay>>].bedwars.has
       /\ \E k \in 1..Len(procs[i].gains) :
             /\ procs[i].gains[k].username = u
             /\ procs[i].gains[k].bwWins = 3
             /\ procs[i].gains[k].swWins < 0
             /\ procs[i].gains[k].gexp = 9

\* a member with a record of the day the pass compiles and no baseline
JoinedLate(i, u) ==
    /\ <<u, procs[i].curDay>> \in DOMAIN files
    /\ <<u, 0>> \notin DOMAIN files

\* C21: a member with a record of the compiled day and no baseline still gets
\* an entry: its experience gain is the record's own daily counter, its wins
\* and level gains are zero, and it is among the players the summary counts.
C21_NoBaselineUsesDailyCounter ==
    \A i \in 1..MaxProcs :
       (procs[i].kind \in reportKinds /\ procs[i].pc = "summary")
       => \A u \in Members :
             JoinedLate(i, u)
             => /\ \E k \in 1..Len(procs[i].gains) :
                      /\ procs[i].gains[k].username = u
                      /\ procs[i].gains[k].gexp = files[<<u, procs[i].curDay>>].daily
                      /\ procs[i].gains[k].bwWins = 0
                      /\ procs[i].gains[k].swWins = 0
                      /\ procs[i].gains[k].nwLevel = 0
                /\ procs[i].sum.totalPlayers = Len(procs[i].gains)

\* C21 witness: a pass has compiled the day of a member without baseline whose
\* record counts wins and a daily experience of 3; the other member has a baseline.
C21_Witness ==
    \E i \in 1..MaxProcs, u \in Members :
       /\ procs[i].kind \in reportKinds /\ procs[i].pc = "summary"
       /\ JoinedLate(i, u)
       /\ files[<<u, procs[i].curDay>>].daily = 3
       /\ files[<<u, procs[i].curDay>>].bedwars.has
       /\ \E v \in Members \ {u} : <<v, 0>> \in DOMAIN files
       /\ procs[i].sum.totalPlayers >= 1
       /\ procs[i].sum.totalGexpGained >= 3

\* the step in which the start handler i runs its clearing
ClearStepOf(i) ==
    procs[i].kind = "start" /\ procs[i].pc = "clear" /\ procs'[i].pc = "guild"

\* nothing that was stored is gone after the step
NothingPurged ==
    /\ DOMAIN files \subseteq DOMAIN files'
    /\ IsPrefix(overall, overall')
    /\ Grows(giveawayData, giveawayData')
    /\ Grows(diskGiveaway, diskGiveaway')

\* C22: the clearing step of an accepted start leaves no player record, no
\* summary history and no giveaway history (on disk and in memory) while the
\* configuration the start saved stays as it is, and the start handler writes
\* its first baseline only after that step; no other step removes a player
\* record or an entry of either history.
C22_PurgeOnlyAtStart ==
    [][/\ \A i \in 1..MaxProcs :
             ClearStepOf(i)
             => /\ files' = <<>> /\ overall' = <<>>
                /\ giveawayData' = EmptyGiveaway /\ diskGiveaway' = EmptyGiveaway
                /\ UNCHANGED <<eventConfig, diskConfig>>
                /\ diskConfig'.set /\ diskConfig' = eventConfig'
                /\ procs[i].n = 0
       /\ (\A i \in 1..MaxProcs : ~ClearStepOf(i)) => NothingPurged]_vars

\* C22 witness: an event was stopped and its final pass wrote a summary; the
\* start of the next event has just cleared the data and its configuration is
\* on disk.
C22_Witness ==
    /\ hist.stopDone.ran /\ hist.stopDone.passes = 1
    /\ \E i \in 1..MaxProcs : procs[i].kind = "start" /\ procs[i].pc = "guild"
    /\ files = <<>> /\ overall = <<>>
    /\ giveawayData = EmptyGiveaway /\ diskGiveaway = EmptyGiveaway
    /\ EventActive(diskConfig) /\ diskConfig = eventConfig

\* the members with a record of a day
Recorded(day) == {u \in Members : <<u, day>> \in DOMAIN files}

\* the experience a member gained by a day, from its files: against the
\* baseline where there is one, the day's own counter otherwise
ExperienceGain(u, day) ==
    IF <<u, 0>> \in DOMAIN files THEN files[<<u, day>>].weekly - files[<<u, 0>>].weekly
    ELSE files[<<u, day>>].daily

RECURSIVE ExperienceOf(_, _)
\* the experience gained by a set of members
ExperienceOf(S, day) ==
    IF S = {} THEN 0
    ELSE LET u == CHOOSE x \in S : TRUE
         IN  ExperienceGain(u, day) + ExperienceOf(S \ {u}, day)

\* C23: the summary a pass compiled counts as many players as there are
\* members with a record of the compiled day, and its total is the sum of the
\* experience gains of those members; members without such a record add
\* nothing to either.
C23_CountAndTotalOverRecorded ==
    \A i \in 1..MaxProcs :
       (procs[i].kind \in reportKinds /\ procs[i].pc = "summary")
       => LET day == procs[i].sum.compiledDay
          IN  /\ procs[i].sum.totalPlayers = Cardinality(Recorded(day))
              /\ procs[i].sum.totalGexpGained = ExperienceOf(Recorded(day), day)

\* C23 witness: a pass compiled a day of which one member has a record while
\* the other has a baseline only; the summary counts one player with a gain.
C23_Witness ==
    \E i \in 1..MaxProcs :
       /\ procs[i].kind \in reportKinds /\ procs[i].pc = "summary"
       /\ procs[i].sum.compiledDay # 0
       /\ Cardinality(Recorded(procs[i].sum.compiledDay)) = 1
       /\ Cardinality(Recorded(0)) = 2
       /\ procs[i].sum.totalPlayers = 1
       /\ procs[i].sum.totalGexpGained > 0

\* a start message with a date that is no date, an end date not after the
\* start date, or an interval that is no number followed by m, h or d
BadStart(m) ==
    \/ ~m.startDate.ok \/ ~m.endDate.ok
    \/ m.endDate.day <= m.startDate.day
    \/ m.intervalStr.unit \notin {"m", "h", "d"}

\* C24: a start message of a permitted requester with no event active whose
\* dates or interval do not validate is answered with an error and starts
\* nothing: the configuration in memory and on disk, the stored data, the
\* timers and the running handlers are as before (no baseline pass begins).
C24_InvalidStartRejected ==
    [][\A m \in StartInputs :
          (handleStartEvent(m) /\ HasPermission(m.rank) /\ ~EventActive(eventConfig)
             /\ BadStart(m))
          => /\ reply' = "start: error"
             /\ UNCHANGED <<eventConfig, diskConfig, files, overall, giveawayData,
                            diskGiveaway, timerVars, procs, hist>>]_vars

\* C24 witness: after an event was stopped and its summary stored, a start
\* message was answered with an error; the stopped event's configuration and
\* the summary are still there and no timer is armed.
C24_Witness ==
    /\ reply = "start: error"
    /\ eventConfig.set /\ ~eventConfig.active /\ diskConfig = eventConfig
    /\ overall # <<>>
    /\ files # <<>>
    /\ updateTimer # "live" /\ dailyReportTimer # "live"
    /\ \A i \in 1..MaxProcs : procs[i].kind # "start"

\* C25: a stop message of a permitted requester while no event is active is
\* answered with "no active event" and changes nothing: configuration, timers,
\* files and both histories are as before and no handler (hence no report
\* pass) is started.
C25_StopWithoutEventRejected ==
    [][\A rank \in Ranks :
          (handleStopEvent(rank) /\ HasPermission(rank) /\ ~EventActive(eventConfig))
          => /\ reply' = "stop: no active event"
             /\ UNCHANGED <<eventConfig, diskConfig, timerVars, files, overall,
                            giveawayData, diskGiveaway, procs, hist>>]_vars

\* C25 witness: an event was stopped and its final pass finished; a second
\* stop was answered with "no active event" and the summary history still
\* holds the single summary of the final pass.
C25_Witness ==
    /\ reply = "stop: no active event"
    /\ eventConfig.set /\ ~eventConfig.active
    /\ hist.stopDone.ran
    /\ Len(overall) = 1
    /\ \A i \in 1..MaxProcs : procs[i].kind = "idle"

\* the step in which a start message is accepted
StartAccepted ==
    \E m \in StartInputs :
       /\ handleStartEvent(m)
       /\ HasPermission(m.rank) /\ ~EventActive(eventConfig)
       /\ ~BadStart(m)

\* the step in which a stop message is accepted
StopAccepted ==
    \E rank \in Ranks :
       handleStopEvent(rank) /\ HasPermission(rank) /\ EventActive(eventConfig)

\* the configuration on disk is the one in memory
ConfigPersisted == diskConfig = eventConfig

\* C26: only the step that accepts a start and the step that accepts a stop
\* change the configuration, in memory or on disk (a status request, a poll
\* cycle, a manual save, a forced or timed report and a shutdown flush leave
\* both alone), and the file always holds the configuration in memory, so in
\* particular after a start or a stop has completed.
C26_ConfigChangedByStartStopOnly ==
    /\ []ConfigPersisted
    /\ [][(eventConfig' # eventConfig \/ diskConfig' # diskConfig)
             => (StartAccepted \/ StopAccepted)]_vars

\* C26 witness: an event was started, a shutdown flush ran to its end and
\* saved the configuration, and a status request was answered; the
\* configuration is active and the file holds it.
C26_Witness ==
    /\ hist.flushDone.ran /\ hist.flushDone.savedCfg
    /\ reply = "status: active"
    /\ EventActive(eventConfig)
    /\ diskConfig = eventConfig

\* the gain of a member in one metric among the gains of a pass
GainOf(gains, u, f) ==
    LET k == CHOOSE j \in 1..Len(gains) : gains[j].username = u
    IN  gains[k][f]

\* a leaderboard of the metric f holds at most ten entries, the larger gain
\* first, and members with the same gain in the order the directories were read
BoardInOrder(board, gains, f) ==
    /\ Len(board) <= 10
    /\ \A a, b \in 1..Len(board) :
          a < b => /\ GainOf(gains, board[a].username, f) >= GainOf(gains, board[b].username, f)
                   /\ GainOf(gains, board[a].username, f) = GainOf(gains, board[b].username, f)
                         => board[a].username < board[b].username

\* C27: each of the four leaderboards of a compiled summary has at most ten
\* entries in non-increasing order of gain, members with equal gain in the
\* order in which they were enumerated.
C27_BoardsSortedTiesInEnumerationOrder ==
    \A i \in 1..MaxProcs :
       (procs[i].kind \in reportKinds /\ procs[i].pc = "summary")
       => /\ BoardInOrder(procs[i].sum.topGexpGainers, procs[i].gains, "gexp")
          /\ BoardInOrder(procs[i].sum.topBedwarsWins, procs[i].gains, "bwWins")
          /\ BoardInOrder(procs[i].sum.topSkywarsWins, procs[i].gains, "swWins")
          /\ BoardInOrder(procs[i].sum.topNetworkLevelGain, procs[i].gains, "nwLevel")

\* the leaderboards and totals of two summaries are the same
SameCompilation(a, b) ==
    /\ a.totalPlayers = b.totalPlayers /\ a.totalGexpGained = b.totalGexpGained
    /\ a.topGexpGainers = b.topGexpGainers /\ a.topBedwarsWins = b.topBedwarsWins
    /\ a.topSkywarsWins = b.topSkywarsWins /\ a.topNetworkLevelGain = b.topNetworkLevelGain

\* C28: the weekly draw of the pass for day 7w reads one summary for every day
\* of 7(w - 1) + 1 .. 7w that has one, no day twice, and the summary of day 7w
\* that this pass compiled is among them.
C28_WeeklyDrawCoversWholeWeek ==
    \A i \in 1..MaxProcs :
       (procs[i].kind \in reportKinds /\ procs[i].pc = "summary" /\ procs[i].week.drawn)
       => LET used == procs[i].week.used
              w == procs[i].week.weekNumber
          IN  /\ \A a, b \in 1..Len(used) : a # b => used[a].dayNumber # used[b].dayNumber
              /\ \A j \in 1..Len(overall) :
                    (overall[j].dayNumber >= 7 * (w - 1) + 1 /\ overall[j].dayNumber <= 7 * w)
                    => \E k \in 1..Len(used) : used[k].dayNumber = overall[j].dayNumber
              /\ \E k \in 1..Len(used) :
                    /\ used[k].dayNumber = 7 * w
                    /\ SameCompilation(used[k], procs[i].sum)

\* the report pass i takes the step
PassSteps(i) == procs[i].kind \in reportKinds /\ procs'[i] # procs[i]

\* C29: in a report pass the draws follow the compilation, and the giveaway
\* history is written to disk last, by the step that comes after the dispatch
\* of the report.
C29_PersistAfterDispatch ==
    [][\A i \in 1..MaxProcs :
          PassSteps(i)
          => /\ giveawayData' # giveawayData => procs[i].pc = "compile"
             /\ diskGiveaway' # diskGiveaway => procs[i].pc = "send"]_vars

\* the cycle i goes on from one member of the roster to a later one
NextMember(i) ==
    /\ procs[i].kind \in cycleKinds /\ procs'[i].kind = procs[i].kind
    /\ procs[i].pc \in {"member", "sleep"} /\ procs'[i].pc = "member"
    /\ procs'[i].idx > procs[i].idx

\* C30: a cycle takes the members of the roster one by one, and it reaches
\* the fetch of the next member only from the pause that follows the fetch of
\* the member before, whether that fetch succeeded or failed.
C30_PauseBetweenMembers ==
    [][\A i \in 1..MaxProcs :
          NextMember(i)
          => /\ procs'[i].idx = procs[i].idx + 1
             /\ procs[i].pc = "sleep"]_vars

\* C31: when a baseline capture or a poll writes the record of a member for a
\* day index, the store holds exactly that record for the pair afterwards,
\* whatever it held before, and the record of every other pair is as before.
C31_WriteReplacesOnePair ==
    [][\A i \in 1..MaxProcs, sample \in PlayerSamples, g \in GuildOutcomes :
          CycleMember(i, TRUE, sample, g)
          => LET key == <<Roster[procs[i].idx], WriteDay(procs[i].kind, eventConfig, now)>>
             IN  /\ DOMAIN files' = DOMAIN files \cup {key}
                 /\ files'[key] = BuildStats(key[1], sample, g[1], g[2])
                 /\ \A k \in DOMAIN files \ {key} : files'[k] = files[k]]_vars

\* C31 witness: without a restart, a start captured the baselines of both
\* members and a manual save that ran on day index 0 wrote both members too;
\* the one failed lookup was in the write that member 1's record got last.
C31_Witness ==
    /\ \A i \in 1..MaxProcs : procs[i].kind = "idle"
    /\ updateTimer = "live"
    /\ reply = "save: saved"
    /\ hist.restarts = 0
    /\ hist.lastWrite.wrote /\ hist.lastWrite.day = 0
    /\ faults = 1
    /\ {<<1, 0>>, <<2, 0>>} \subseteq DOMAIN files
    /\ files[<<1, 0>>].weekly = 0
    /\ files[<<2, 0>>].weekly = 5

\* C32: the average that scores a weekly draw is the week's total gain divided
\* by the week's participant-days (the sum of the daily player counts), it is
\* 1 when there are no participant-days, and no winner is drawn when it is zero.
C32_WeekAverageOverParticipantDays ==
    \A i \in 1..MaxProcs :
       (procs[i].kind \in reportKinds /\ procs[i].pc = "summary"
        /\ procs[i].week.drawn /\ procs[i].week.used # <<>>)
       => LET used == procs[i].week.used
              total == SumField(used, "totalGexpGained")
              participantDays == SumField(used, "totalPlayers")
              average == WeekAverageGexp(used)
          IN  /\ participantDays > 0 => average.num * participantDays = total * average.den
              /\ participantDays = 0 => average.num = average.den
              /\ average.num = 0 => procs[i].sum.weeklyWinner = 0

\* the cycle i takes the step in which its fetchGuildData for the roster returns
GuildLookup(i) ==
    /\ procs[i].kind \in cycleKinds /\ procs[i].pc = "guild"
    /\ procs'[i] # procs[i]
    /\ hist'.restarts = hist.restarts

\* C33: a lookup made half a day or more after the cached identity was
\* resolved, well over the hour the cache may be used for, resolves the
\* identity again.
C33_CacheExpiresAfterOneHour ==
    [][\A i \in 1..MaxProcs :
          (GuildLookup(i) /\ botUuidCache /\ now > hist.resolvedAt)
          => hist'.resolvedAt = now]_vars

\* the poll interval, the first-midnight timeout or the daily interval is armed
SomeTimerArmed ==
    \/ updateTimer = "live"
    \/ pendingTimeouts > 0 \/ dueTimeouts > 0
    \/ liveDaily > 0

\* C34: whenever the poll timer or a daily-report timer is armed, the event is
\* active, also when a stop was handled while a start was waiting in its
\* baseline capture.
C34_TimersArmedOnlyWhileActive == SomeTimerArmed => EventActive(eventConfig)

\* C35: a cycle writes the record of a member only while the event is active;
\* from the stop on no record is created or replaced until the next start.
C35_NoWriteWhileInactive ==
    [][\A i \in 1..MaxProcs, sample \in PlayerSamples, g \in GuildOutcomes :
          CycleMember(i, TRUE, sample, g) => EventActive(eventConfig)]_vars

\* no two entries of a list carry the same day number
OnePerDay(entries) ==
    \A a, b \in 1..Len(entries) : a # b => entries[a].dayNumber # entries[b].dayNumber

\* C36: the giveaway history, in memory and on disk, holds at most one daily
\* winner and at most one pool for a day number.
C36_OneWinnerAndPoolPerDay ==
    /\ OnePerDay(giveawayData.dailyWinners) /\ OnePerDay(giveawayData.dailyPools)
    /\ OnePerDay(diskGiveaway.dailyWinners) /\ OnePerDay(diskGiveaway.dailyPools)

\* C37: when a pass records a daily winner, no entry of the day's experience
\* leaderboard has gained more than the winner.
C37_WinnerHasLargestGain ==
    \A i \in 1..MaxProcs :
       (procs[i].kind \in reportKinds /\ procs[i].pc = "summary"
        /\ procs[i].sum.dailyWinner # 0)
       => \A k \in 1..Len(procs[i].sum.topGexpGainers) :
             procs[i].sum.topGexpGainers[k].gained
                <= GexpOf(procs[i].sum, procs[i].sum.dailyWinner)

\* C38: the day number a pass stamps on its summary, and on the daily winner
\* it records, is the day index whose records the compilation read.
C38_StampedDayIsCompiledDay ==
    \A i \in 1..MaxProcs :
       (procs[i].kind \in reportKinds /\ procs[i].pc = "summary")
       => /\ procs[i].sum.dayNumber = procs[i].sum.compiledDay
          /\ procs[i].sum.dailyWinner # 0
                => giveawayData.dailyWinners[Len(giveawayData.dailyWinners)].dayNumber
                      = procs[i].sum.compiledDay

\* C39: when a guild lookup fails while a poll cycle builds the record of a
\* member, the cycle writes nothing for that member: the stored records are
\* as before.
C39_FailedGuildLookupWritesNothing ==
    [][\A i \in 1..MaxProcs, sample \in PlayerSamples, g \in GuildOutcomes :
          (CycleMember(i, TRUE, sample, g) /\ procs[i].kind # "start"
             /\ (~g[1] \/ ~g[2]))
          => files' = files]_vars

\* C40: when a process starts and finds an active configuration on disk, the
\* data beside it is that event's: no summary and no giveaway entry of the
\* stopped event, and no record other than the baselines of the new event.
C40_ActiveConfigOwnsData ==
    (hist.restarts > 0 /\ EventActive(diskConfig))
    => /\ overall = <<>>
       /\ diskGiveaway = EmptyGiveaway
       /\ \A k \in DOMAIN files : k[2] = 0

====
